---- MODULE Spec2Model ----
(***************************************************************************)
(* A model of src/message.rs of notmuch-rs: the Message handle over the    *)
(* native engine's message object, the handles derived from it, and the    *)
(* FrozenMessage scope guard.                                              *)
(*                                                                         *)
(* Text is modelled as a sequence of bytes (naturals), 0 being NUL.  A     *)
(* Result<T> is a tuple: <<"Ok", ...>> or <<"Err", error>>; a panic of the *)
(* call is <<"Panic">>.                                                    *)
(***************************************************************************)
EXTENDS Integers, Sequences, FiniteSets

VARIABLES
    dbReadOnly,   \* engine: the database was opened read-only
    frozen,       \* engine: freeze nesting count of each message
    guards,       \* the FrozenMessage values: state, wrapped message, thaws made by drop
    clean,        \* per message: no direct freeze()/thaw() and no failed engine call so far
    lastCall,     \* the last API call: operation, guard, message, returned value, engine calls made
    tagset,       \* engine: the tags of the message
    hist,         \* the last HistLen tag calls on the message, oldest first
    headers,      \* engine: what get_header returns for each header name
    hdrCall,      \* the last header() call: name, the engine's return, the result
    props,        \* engine: the (key, value) properties of the message
    propCall,     \* the last properties() call: key, exact, the handle returned
    owner,        \* the owner O of the messages: in the caller's scope, held by markers, or dropped
    messages,     \* the Message values: state and ownership marker
    handles,      \* the handles derived from messages: state, kind, what they borrow and hold
    lastUse,      \* the last use of a derived handle, with what was alive at that moment
    borrowFlag,   \* the borrow flag of the RefCell holding a message's marker
    marker,       \* the marker in that RefCell: Borrowed, Owned or Shared
    pc,           \* where each thread stands in its replies() call
    seen,         \* the flag value each thread last read
    done          \* the replies() calls each thread has completed

freezeVars == <<frozen, guards, clean, lastCall>>
tagVars == <<tagset, hist>>
hdrVars == <<headers, hdrCall>>
propVars == <<props, propCall>>

lifeVars == <<owner, messages, handles, lastUse>>

thrVars == <<borrowFlag, marker, pc, seen, done>>

notFreeze == <<tagVars, hdrVars, propVars, lifeVars, thrVars>>
notTags == <<freezeVars, hdrVars, propVars, lifeVars, thrVars>>
notHdr == <<freezeVars, tagVars, propVars, lifeVars, thrVars>>
notProps == <<freezeVars, tagVars, hdrVars, lifeVars, thrVars>>
notLife == <<dbReadOnly, freezeVars, tagVars, hdrVars, propVars, thrVars>>
notThreads == <<dbReadOnly, freezeVars, tagVars, hdrVars, propVars, lifeVars>>

vars == <<dbReadOnly, freezeVars, tagVars, hdrVars, propVars, lifeVars, thrVars>>

---------------------------------------------------------------------------
(* The messages and the guards *)

\* number of FrozenMessage guards ever constructed in one behaviour
MaxGuards == 3
\* cap on the nesting reached by direct freeze() calls
MaxNest == 2

Msgs == {"m1", "m2"}
GuardIds == 1 .. MaxGuards

---------------------------------------------------------------------------
(* Results *)

Ok == <<"Ok">>
Err(e) == <<"Err", e>>
Unit == <<"Unit">>
Panic == <<"Panic">>
IsErr(r) == r[1] = "Err"

\* notmuch_status_t::as_result: SUCCESS is Ok(()), any other status the error
as_result(status) == IF status = "SUCCESS" THEN Ok ELSE Err(status)

---------------------------------------------------------------------------
(* The engine's freeze/thaw bracket.  An engine value e is the pair of the *)
(* nesting counts and the log of the native calls made so far in the       *)
(* current API call.  fault: the engine fails for a reason of its own.     *)

Engine(cnt) == [frozen |-> cnt, log |-> <<>>]

Logged(e, fn, m, status) ==
    [e EXCEPT !.log = Append(@, [fn |-> fn, msg |-> m, status |-> status])]

notmuch_message_freeze(e, m, fault) ==
    LET status == IF dbReadOnly THEN "READ_ONLY_DATABASE"
                  ELSE IF fault THEN "XAPIAN_EXCEPTION"
                  ELSE "SUCCESS"
        e1 == IF status = "SUCCESS"
              THEN [e EXCEPT !.frozen[m] = @ + 1]
              ELSE e
    IN  [eng |-> Logged(e1, "freeze", m, status), status |-> status]

notmuch_message_thaw(e, m, fault) ==
    LET status == IF dbReadOnly THEN "READ_ONLY_DATABASE"
                  ELSE IF fault THEN "XAPIAN_EXCEPTION"
                  ELSE IF e.frozen[m] = 0 THEN "UNBALANCED_FREEZE_THAW"
                  ELSE "SUCCESS"
        e1 == IF status = "SUCCESS"
              THEN [e EXCEPT !.frozen[m] = @ - 1]
              ELSE e
    IN  [eng |-> Logged(e1, "thaw", m, status), status |-> status]

---------------------------------------------------------------------------
(* Message::freeze, Message::thaw *)

Message_freeze(e, m, fault) ==
    LET r == notmuch_message_freeze(e, m, fault)
    IN  [eng |-> r.eng, ret |-> as_result(r.status)]

\* a bug: thaw calls the engine's freeze
Mut_thaw_calls_freeze(e, m, fault) ==
    LET r == notmuch_message_freeze(e, m, fault)
    IN  [eng |-> r.eng, ret |-> as_result(r.status)]

Message_thaw(e, m, fault) ==
    LET r == notmuch_message_thaw(e, m, fault)
    IN  [eng |-> r.eng, ret |-> as_result(r.status)]

---------------------------------------------------------------------------
(* FrozenMessage::new and Drop for FrozenMessage *)

\* a bug: the freeze result is not looked at, the guard is built anyway
Mut_new_ignores_freeze(e, m, fault) ==
    LET r == Message_freeze(e, m, fault)
    IN  [eng |-> r.eng, ret |-> Ok, made |-> TRUE]

\* msg.freeze()?; Ok(FrozenMessage { message: msg })
FrozenMessage_new(e, m, fault) ==
    LET r == Message_freeze(e, m, fault)
    IN  IF IsErr(r.ret)
        THEN [eng |-> r.eng, ret |-> r.ret, made |-> FALSE]
        ELSE [eng |-> r.eng, ret |-> Ok, made |-> TRUE]

\* a bug: the destructor does nothing
Mut_drop_no_thaw(e, m, fault) ==
    [eng |-> e, ret |-> Unit]

\* a bug: self.message.thaw().unwrap()
Mut_drop_unwraps(e, m, fault) ==
    LET r == Message_thaw(e, m, fault)
    IN  [eng |-> r.eng, ret |-> IF IsErr(r.ret) THEN Panic ELSE Unit]

\* let _ = self.message.thaw();
FrozenMessage_drop(e, m, fault) ==
    LET r == Message_thaw(e, m, fault)
    IN  [eng |-> r.eng, ret |-> Unit]

---------------------------------------------------------------------------
(* The freeze/thaw state machine *)

NoGuard == [state |-> "none", msg |-> "m1", thaws |-> 0]

ThawsIn(log, m) ==
    Cardinality({i \in 1 .. Len(log) : log[i].fn = "thaw" /\ log[i].msg = m})

AllSuccess(log) == \A i \in 1 .. Len(log) : log[i].status = "SUCCESS"

LiveGuards(m) == {g \in GuardIds : guards[g].state = "live" /\ guards[g].msg = m}

InitFreeze ==
    /\ frozen = [m \in Msgs |-> 0]
    /\ guards = [g \in GuardIds |-> NoGuard]
    /\ clean = [m \in Msgs |-> TRUE]
    /\ lastCall = [op |-> "none", g |-> 0, msg |-> "m1", ret |-> Unit, log |-> <<>>]

\* The state of the parts of the model a specification does not exercise
IdleTags ==
    /\ tagset = {}
    /\ hist = <<>>

NoHdrCall == [called |-> FALSE, name |-> <<>>, raw |-> <<"NULL">>, ret |-> Unit]

IdleHdr ==
    /\ headers = <<>>
    /\ hdrCall = NoHdrCall

NoPropCall == [called |-> FALSE, key |-> <<>>, exact |-> FALSE, ret |-> Unit]

IdleProps ==
    /\ props = {}
    /\ propCall = NoPropCall

\* number of Message values and of derived handles made in one behaviour
MaxMsgs == 2
MaxHandles == 2

MsgIds == 1 .. MaxMsgs
HandleIds == 1 .. MaxHandles

NoMessage == [state |-> "none", marker |-> "Borrowed"]
NoHandle == [state |-> "none", kind |-> "tags", src |-> 0, borrows |-> {}, owns |-> {},
             marker |-> "None"]
NoUse == [h |-> 0, kind |-> "tags", producerAlive |-> TRUE, ownerAlive |-> TRUE]

InitLife ==
    /\ owner = "scope"
    /\ messages = [m \in MsgIds |-> NoMessage]
    /\ handles = [h \in HandleIds |-> NoHandle]
    /\ lastUse = NoUse

\* replies() calls each thread makes
MaxCalls == 2

Threads == {"t1", "t2"}

IdleThreads ==
    /\ borrowFlag = 0
    /\ marker = "Borrowed"
    /\ pc = [t \in Threads |-> "idle"]
    /\ seen = [t \in Threads |-> 0]
    /\ done = [t \in Threads |-> 0]

Init ==
    /\ dbReadOnly \in BOOLEAN
    /\ InitFreeze
    /\ IdleTags
    /\ IdleHdr
    /\ IdleProps
    /\ InitLife
    /\ IdleThreads

\* a caller calls message.freeze() itself
Freeze(m, fault) ==
    /\ frozen[m] < MaxNest
    /\ LET r == Message_freeze(Engine(frozen), m, fault)
       IN  /\ frozen' = r.eng.frozen
           /\ clean' = [clean EXCEPT ![m] = FALSE]
           /\ lastCall' = [op |-> "freeze", g |-> 0, msg |-> m, ret |-> r.ret,
                           log |-> r.eng.log]
    /\ UNCHANGED <<dbReadOnly, guards, notFreeze>>

\* a caller calls message.thaw() itself
Thaw(m, fault) ==
    /\ LET r == Message_thaw(Engine(frozen), m, fault)
       IN  /\ frozen' = r.eng.frozen
           /\ clean' = [clean EXCEPT ![m] = FALSE]
           /\ lastCall' = [op |-> "thaw", g |-> 0, msg |-> m, ret |-> r.ret,
                           log |-> r.eng.log]
    /\ UNCHANGED <<dbReadOnly, guards, notFreeze>>

\* FrozenMessage::new(message): g is the value that would be built
NewGuard(g, m, fault) ==
    /\ guards[g].state = "none"
    /\ \A h \in GuardIds : h < g => guards[h].state # "none"
    /\ LET r == FrozenMessage_new(Engine(frozen), m, fault)
       IN  /\ frozen' = r.eng.frozen
           /\ guards' = IF r.made
                        THEN [guards EXCEPT ![g] = [state |-> "live", msg |-> m, thaws |-> 0]]
                        ELSE guards
           /\ clean' = [clean EXCEPT ![m] = @ /\ AllSuccess(r.eng.log)]
           /\ lastCall' = [op |-> "new", g |-> g, msg |-> m, ret |-> r.ret,
                           log |-> r.eng.log]
    /\ UNCHANGED <<dbReadOnly, notFreeze>>

\* the guard g goes out of scope
DropGuard(g, fault) ==
    /\ guards[g].state = "live"
    /\ LET m == guards[g].msg
           r == FrozenMessage_drop(Engine(frozen), m, fault)
       IN  /\ frozen' = r.eng.frozen
           /\ guards' = [guards EXCEPT ![g] = [state |-> "dropped", msg |-> m,
                                               thaws |-> ThawsIn(r.eng.log, m)]]
           /\ clean' = [clean EXCEPT ![m] = @ /\ AllSuccess(r.eng.log)]
           /\ lastCall' = [op |-> "drop", g |-> g, msg |-> m, ret |-> r.ret,
                           log |-> r.eng.log]
    /\ UNCHANGED <<dbReadOnly, notFreeze>>

Next ==
    \/ \E m \in Msgs, fault \in BOOLEAN : Freeze(m, fault)
    \/ \E m \in Msgs, fault \in BOOLEAN : Thaw(m, fault)
    \/ \E g \in GuardIds, m \in Msgs, fault \in BOOLEAN : NewGuard(g, m, fault)
    \/ \E g \in GuardIds, fault \in BOOLEAN : DropGuard(g, fault)

Spec == Init /\ [][Next]_vars

---------------------------------------------------------------------------
(* Claims about the scope guard, checked under Spec *)

FailedIn(log, fn) == \E i \in 1 .. Len(log) : log[i].fn = fn /\ log[i].status # "SUCCESS"

\* C1: every guard that was built and then destroyed had thaw() called on
\* the message it wraps exactly once by its destruction, and a guard that is
\* still alive has had none; the destruction makes that one native call and
\* no other.
C1_DropThawsExactlyOnce ==
    /\ \A g \in GuardIds :
          /\ guards[g].state = "dropped" => guards[g].thaws = 1
          /\ guards[g].state = "live" => guards[g].thaws = 0
    /\ lastCall.op = "drop" =>
          /\ Len(lastCall.log) = 1
          /\ lastCall.log[1].fn = "thaw"
          /\ lastCall.log[1].msg = guards[lastCall.g].msg

\* C1 witness: a guard was destroyed on a message nobody called thaw() on
C1_Witness ==
    \E g \in GuardIds :
        /\ guards[g].state = "dropped"
        /\ clean[guards[g].msg]
        /\ lastCall.op = "drop" /\ lastCall.g = g

\* C2: when the engine's freeze fails inside FrozenMessage::new, new returns
\* that very error, the guard does not exist afterwards, and the call made
\* no thaw on the message.
C2_FailedNewMakesNoGuard ==
    (lastCall.op = "new" /\ FailedIn(lastCall.log, "freeze")) =>
        /\ lastCall.ret = Err(lastCall.log[1].status)
        /\ guards[lastCall.g].state = "none"
        /\ ThawsIn(lastCall.log, lastCall.msg) = 0
        /\ Len(lastCall.log) = 1

\* C2 witness: a construction whose freeze failed on a writable database
C2_Witness ==
    /\ lastCall.op = "new"
    /\ FailedIn(lastCall.log, "freeze")
    /\ ~dbReadOnly
    /\ lastCall.ret = Err("XAPIAN_EXCEPTION")

\* C3: when the thaw made by a guard's destruction fails, the destruction
\* still completes and returns nothing: no error, no panic, no second thaw.
C3_DropSwallowsThawFailure ==
    (lastCall.op = "drop" /\ FailedIn(lastCall.log, "thaw")) =>
        /\ lastCall.ret = Unit
        /\ guards[lastCall.g].state = "dropped"
        /\ Len(lastCall.log) = 1

\* C3 witness: a destruction whose thaw the engine refused as unbalanced
C3_Witness ==
    /\ lastCall.op = "drop"
    /\ Len(lastCall.log) = 1
    /\ lastCall.log[1].status = "UNBALANCED_FREEZE_THAW"
    /\ guards[lastCall.g].state = "dropped"

\* C10: on a message that saw only guard constructions and destructions,
\* none of whose engine calls failed, the freeze nesting count equals the
\* number of live guards of that message; it is 0, its initial value, once
\* all of them are destroyed.
C10_NestingEqualsLiveGuards ==
    \A m \in Msgs : clean[m] => frozen[m] = Cardinality(LiveGuards(m))

\* C10 witness: nested guards on one message, one already destroyed
C10_Witness ==
    /\ clean["m1"]
    /\ Cardinality(LiveGuards("m1")) = 2
    /\ \E g \in GuardIds : guards[g].state = "dropped" /\ guards[g].msg = "m1"
    /\ frozen["m1"] = 2

---------------------------------------------------------------------------
(* Text crossing the boundary *)

HasNul(s) == \E i \in 1 .. Len(s) : s[i] = 0

\* CString::new(s): an interior NUL is an error, else s with a NUL appended
CString_new(s) == IF HasNul(s) THEN Err("NulError") ELSE <<"Ok", Append(s, 0)>>

\* the text the engine reads behind a C string pointer: the bytes before the NUL
CStr(c) == SubSeq(c, 1, Len(c) - 1)

RECURSIVE LexLess(_, _)
LexLess(a, b) ==
    IF a = <<>> THEN b # <<>>
    ELSE IF b = <<>> THEN FALSE
    ELSE IF Head(a) # Head(b) THEN Head(a) < Head(b)
    ELSE LexLess(Tail(a), Tail(b))

RECURSIVE Sorted(_)
Sorted(S) ==
    IF S = {} THEN <<>>
    ELSE LET x == CHOOSE x \in S : \A y \in S \ {x} : LexLess(x, y)
         IN  <<x>> \o Sorted(S \ {x})

---------------------------------------------------------------------------
(* The engine's tag set of a message.  ts: the tags before the call; c: the *)
(* C string passed; fault: the engine fails for a reason of its own.       *)

MutatorStatus(fault) ==
    IF dbReadOnly THEN "READ_ONLY_DATABASE"
    ELSE IF fault THEN "XAPIAN_EXCEPTION"
    ELSE "SUCCESS"

notmuch_message_add_tag(ts, c, fault) ==
    LET status == MutatorStatus(fault)
    IN  [tags |-> IF status = "SUCCESS" THEN ts \cup {CStr(c)} ELSE ts, status |-> status]

notmuch_message_remove_tag(ts, c, fault) ==
    LET status == MutatorStatus(fault)
    IN  [tags |-> IF status = "SUCCESS" THEN ts \ {CStr(c)} ELSE ts, status |-> status]

notmuch_message_remove_all_tags(ts, fault) ==
    LET status == MutatorStatus(fault)
    IN  [tags |-> IF status = "SUCCESS" THEN {} ELSE ts, status |-> status]

\* the tag list handed out, in the engine's (sorted) order
notmuch_message_get_tags(ts) == Sorted(ts)

---------------------------------------------------------------------------
(* Message::add_tag, remove_tag, remove_all_tags, tags *)

Message_add_tag(ts, tag, fault) ==
    LET c == CString_new(tag)
    IN  IF IsErr(c) THEN [tags |-> ts, ret |-> Panic]
        ELSE LET r == notmuch_message_add_tag(ts, c[2], fault)
             IN  [tags |-> r.tags, ret |-> as_result(r.status)]

\* a bug: remove_tag calls the engine's add_tag
Mut_remove_tag_adds(ts, tag, fault) ==
    LET c == CString_new(tag)
    IN  IF IsErr(c) THEN [tags |-> ts, ret |-> Panic]
        ELSE LET r == notmuch_message_add_tag(ts, c[2], fault)
             IN  [tags |-> r.tags, ret |-> as_result(r.status)]

Message_remove_tag(ts, tag, fault) ==
    LET c == CString_new(tag)
    IN  IF IsErr(c) THEN [tags |-> ts, ret |-> Panic]
        ELSE LET r == notmuch_message_remove_tag(ts, c[2], fault)
             IN  [tags |-> r.tags, ret |-> as_result(r.status)]

\* a bug: the status of the engine call is dropped
Mut_remove_all_tags_drops_status(ts, fault) ==
    LET r == notmuch_message_remove_all_tags(ts, fault)
    IN  [tags |-> r.tags, ret |-> Ok]

Message_remove_all_tags(ts, fault) ==
    LET r == notmuch_message_remove_all_tags(ts, fault)
    IN  [tags |-> r.tags, ret |-> as_result(r.status)]

\* MessageExt::tags: the Tags handle over the engine's list; iterating it
\* yields the list's elements in order
MessageExt_tags(ts) == <<"Tags", notmuch_message_get_tags(ts)>>

Message_tags(ts) == MessageExt_tags(ts)

---------------------------------------------------------------------------
(* The tag state machine *)

\* length of the call history kept
HistLen == 3

\* the tags callers pass: "a", "b", and a text with an interior NUL
TagArgs == {<<97>>, <<98>>, <<97, 0, 98>>}
\* the tags a message may start with
StoredTags == {<<97>>, <<98>>}

Record(h, call) ==
    IF Len(h) < HistLen THEN Append(h, call) ELSE Append(Tail(h), call)

InitTags ==
    /\ tagset \in SUBSET StoredTags
    /\ hist = <<>>

AddTag(tag, fault) ==
    /\ LET r == Message_add_tag(tagset, tag, fault)
       IN  /\ tagset' = r.tags
           /\ hist' = Record(hist, [op |-> "add_tag", tag |-> tag, ret |-> r.ret])
    /\ UNCHANGED <<dbReadOnly, notTags>>

RemoveTag(tag, fault) ==
    /\ LET r == Message_remove_tag(tagset, tag, fault)
       IN  /\ tagset' = r.tags
           /\ hist' = Record(hist, [op |-> "remove_tag", tag |-> tag, ret |-> r.ret])
    /\ UNCHANGED <<dbReadOnly, notTags>>

RemoveAllTags(fault) ==
    /\ LET r == Message_remove_all_tags(tagset, fault)
       IN  /\ tagset' = r.tags
           /\ hist' = Record(hist, [op |-> "remove_all_tags", tag |-> <<>>, ret |-> r.ret])
    /\ UNCHANGED <<dbReadOnly, notTags>>

TagsCall ==
    /\ hist' = Record(hist, [op |-> "tags", tag |-> <<>>, ret |-> Message_tags(tagset)])
    /\ UNCHANGED <<dbReadOnly, notTags, tagset>>

NextTags ==
    \/ \E tag \in TagArgs, fault \in BOOLEAN : AddTag(tag, fault)
    \/ \E tag \in TagArgs, fault \in BOOLEAN : RemoveTag(tag, fault)
    \/ \E fault \in BOOLEAN : RemoveAllTags(fault)
    \/ TagsCall

InitSpecTags ==
    /\ dbReadOnly \in BOOLEAN
    /\ InitFreeze
    /\ InitTags
    /\ IdleHdr
    /\ IdleProps
    /\ InitLife
    /\ IdleThreads

SpecTags == InitSpecTags /\ [][NextTags]_vars

---------------------------------------------------------------------------
(* Claims about tags, checked under SpecTags *)

Yielded(call) == {call.ret[2][i] : i \in 1 .. Len(call.ret[2])}

Last(k) == hist[Len(hist) - k]

\* the last three calls were add_tag(t), remove_tag(t), tags()
AddRemoveTags(t) ==
    /\ Len(hist) >= 3
    /\ Last(2).op = "add_tag" /\ Last(2).tag = t
    /\ Last(1).op = "remove_tag" /\ Last(1).tag = t
    /\ Last(0).op = "tags"

\* C5 as claimed: after add_tag(t) then remove_tag(t), whatever the calls
\* returned, tags() does not yield t.
C5_AsClaimed ==
    \A t \in TagArgs : AddRemoveTags(t) => t \notin Yielded(Last(0))

\* C5 amended: after add_tag(t) then a remove_tag(t) that returned Ok,
\* tags() does not yield t, whether or not t was there before the add.
C5_RemovedWhenRemoveSucceeds ==
    \A t \in TagArgs :
        (AddRemoveTags(t) /\ Last(1).ret = Ok) => t \notin Yielded(Last(0))

\* C5 witness: the add succeeded, the remove succeeded, tags() was read
C5_Witness ==
    /\ AddRemoveTags(<<97>>)
    /\ Last(2).ret = Ok /\ Last(1).ret = Ok
    /\ <<98>> \in Yielded(Last(0))

\* C6: tags() right after a remove_all_tags() that returned Ok yields the
\* empty sequence.
C6_RemoveAllThenTagsEmpty ==
    \A i \in 1 .. Len(hist) - 1 :
        (hist[i].op = "remove_all_tags" /\ hist[i].ret = Ok /\ hist[i + 1].op = "tags")
            => hist[i + 1].ret = <<"Tags", <<>>>>

\* C6 witness: tags were there, remove_all_tags() succeeded, tags() was read
C6_Witness ==
    /\ Len(hist) >= 3
    /\ Last(2).op = "tags" /\ Last(2).ret = <<"Tags", <<<<97>>, <<98>>>>>>
    /\ Last(1).op = "remove_all_tags" /\ Last(1).ret = Ok
    /\ Last(0).op = "tags"

---------------------------------------------------------------------------
(* Message::header *)

\* bound on the length of a header value the engine returns
MaxHdrLen == 2

\* the bytes of header values: 'A', and the two bytes of U+00E9
HdrBytes == {65, 195, 169}

RECURSIVE SeqsUpTo(_, _)
SeqsUpTo(S, n) ==
    IF n = 0 THEN {<<>>}
    ELSE LET shorter == SeqsUpTo(S, n - 1)
         IN  shorter \cup {Append(s, b) : s \in shorter, b \in S}

NullPtr == <<"NULL">>
Ptr(bytes) == <<"Ptr", bytes>>

\* what the engine may return for a header: NULL or a NUL-terminated text
HdrReturns == {NullPtr} \cup {Ptr(v) : v \in SeqsUpTo(HdrBytes, MaxHdrLen)}

\* the names looked up: "F", "T", and a name with an interior NUL
HeaderArgs == {<<70>>, <<84>>, <<70, 0, 84>>}
StoredHeaders == {<<70>>, <<84>>}

\* UTF-8 well-formedness, for one-byte and two-byte sequences (the lead
\* bytes of longer sequences are not among HdrBytes)
RECURSIVE Utf8Valid(_)
Utf8Valid(s) ==
    IF s = <<>> THEN TRUE
    ELSE IF Head(s) < 128 THEN Utf8Valid(Tail(s))
    ELSE IF Head(s) \in 194 .. 223
         THEN /\ Len(s) >= 2
              /\ s[2] \in 128 .. 191
              /\ Utf8Valid(SubSeq(s, 3, Len(s)))
    ELSE FALSE

\* ToStr::to_str of a non-null pointer: the text, or a decoding error
to_str(p) == IF Utf8Valid(p[2]) THEN <<"Ok", p[2]>> ELSE Err("Utf8Error")

notmuch_message_get_header(hs, c) == hs[CStr(c)]

None == <<"None">>
Some(v) == <<"Some", v>>

\* a bug: a null return is read as the empty text
Mut_header_null_is_none(hs, name) ==
    LET c == CString_new(name)
    IN  IF IsErr(c) THEN Panic
        ELSE LET ret == notmuch_message_get_header(hs, c[2])
             IN  IF ret = NullPtr THEN <<"Ok", None>>
                 ELSE LET d == to_str(ret)
                      IN  IF IsErr(d) THEN Panic
                          ELSE IF d[2] = <<>> THEN <<"Ok", None>>
                          ELSE <<"Ok", Some(d[2])>>

Message_header(hs, name) ==
    LET c == CString_new(name)
    IN  IF IsErr(c) THEN Panic
        ELSE LET ret == notmuch_message_get_header(hs, c[2])
             IN  IF ret = NullPtr THEN Err("UnspecifiedError")
                 ELSE LET d == to_str(ret)
                      IN  IF IsErr(d) THEN Panic
                          ELSE IF d[2] = <<>> THEN <<"Ok", None>>
                          ELSE <<"Ok", Some(d[2])>>

InitHdr ==
    /\ headers \in [StoredHeaders -> HdrReturns]
    /\ hdrCall = NoHdrCall

Header(name) ==
    /\ hdrCall' = [called |-> TRUE, name |-> name,
                   raw |-> IF HasNul(name) THEN NullPtr ELSE headers[name],
                   ret |-> Message_header(headers, name)]
    /\ UNCHANGED <<dbReadOnly, notHdr, headers>>

NextHeader == \E name \in HeaderArgs : Header(name)

InitSpecHeader ==
    /\ dbReadOnly \in BOOLEAN
    /\ InitFreeze
    /\ IdleTags
    /\ InitHdr
    /\ IdleProps
    /\ InitLife
    /\ IdleThreads

SpecHeader == InitSpecHeader /\ [][NextHeader]_vars

\* the engine was asked and answered hdrCall.raw
Answered == hdrCall.called /\ ~HasNul(hdrCall.name)

\* the engine's answer is a text: a non-null pointer to bytes that decode
IsText(raw) == raw # NullPtr /\ Utf8Valid(raw[2])

\* C4: for every header name, header(name) returns Err(UnspecifiedError)
\* when the engine returns null, Ok(None) when it returns the empty text
\* and Ok(Some(v)) when it returns a non-empty text v; so a null is never
\* reported as Ok(None), and an Ok is never given without a text.
C4_HeaderOutcomes ==
    Answered =>
        /\ hdrCall.raw = NullPtr => hdrCall.ret = Err("UnspecifiedError")
        /\ hdrCall.raw = Ptr(<<>>) => hdrCall.ret = <<"Ok", None>>
        /\ (IsText(hdrCall.raw) /\ hdrCall.raw # Ptr(<<>>))
              => hdrCall.ret = <<"Ok", Some(hdrCall.raw[2])>>
        /\ hdrCall.ret = <<"Ok", None>> => hdrCall.raw = Ptr(<<>>)
        /\ hdrCall.ret[1] = "Ok" => IsText(hdrCall.raw)

\* C4 witness: a lookup the engine answered with a two-byte character, on a
\* message where another lookup answers NULL
C4_Witness ==
    /\ Answered
    /\ hdrCall.raw = Ptr(<<195, 169>>)
    /\ hdrCall.ret = <<"Ok", Some(<<195, 169>>)>>
    /\ \E n \in StoredHeaders : headers[n] = NullPtr

---------------------------------------------------------------------------
(* Message::properties *)

\* the property keys "k", "kk", "j" and the values "1", "2"
StoredProps == {<<k, v>> : k \in {<<107>>, <<107, 107>>, <<106>>}, v \in {<<49>>, <<50>>}}
\* the keys asked for: "", "k", "kk", "j", and a key with an interior NUL
KeyArgs == {<<>>, <<107>>, <<107, 107>>, <<106>>, <<107, 0>>}

IsPrefix(a, b) == Len(a) <= Len(b) /\ SubSeq(b, 1, Len(a)) = a

PairLess(p, q) == LexLess(p[1], q[1]) \/ (p[1] = q[1] /\ LexLess(p[2], q[2]))

RECURSIVE SortedPairs(_)
SortedPairs(S) ==
    IF S = {} THEN <<>>
    ELSE LET x == CHOOSE x \in S : \A y \in S \ {x} : PairLess(x, y)
         IN  <<x>> \o SortedPairs(S \ {x})

\* the engine's property list for a key: exact (non-zero) selects the
\* properties with that very key, 0 those whose key starts with it
notmuch_message_get_properties(ps, c, exact) ==
    SortedPairs({p \in ps : IF exact # 0 THEN p[1] = CStr(c) ELSE IsPrefix(CStr(c), p[1])})

\* exact as i32
bool_as_i32(b) == IF b THEN 1 ELSE 0

\* a bug: the flag is not passed on, the engine is always asked for prefixes
Mut_properties_ignores_exact(ps, key, exact) ==
    LET c == CString_new(key)
    IN  IF IsErr(c) THEN Panic
        ELSE <<"MessageProperties", notmuch_message_get_properties(ps, c[2], 0)>>

MessageExt_properties(ps, key, exact) ==
    LET c == CString_new(key)
    IN  IF IsErr(c) THEN Panic
        ELSE <<"MessageProperties",
               notmuch_message_get_properties(ps, c[2], bool_as_i32(exact))>>

Message_properties(ps, key, exact) == MessageExt_properties(ps, key, exact)

InitProps ==
    /\ props \in SUBSET StoredProps
    /\ propCall = NoPropCall

Properties(key, exact) ==
    /\ propCall' = [called |-> TRUE, key |-> key, exact |-> exact,
                    ret |-> Message_properties(props, key, exact)]
    /\ UNCHANGED <<dbReadOnly, notProps, props>>

NextProps == \E key \in KeyArgs, exact \in BOOLEAN : Properties(key, exact)

InitSpecProps ==
    /\ dbReadOnly \in BOOLEAN
    /\ InitFreeze
    /\ IdleTags
    /\ IdleHdr
    /\ InitProps
    /\ InitLife
    /\ IdleThreads

SpecProps == InitSpecProps /\ [][NextProps]_vars

PropsYielded == {propCall.ret[2][i] : i \in 1 .. Len(propCall.ret[2])}

\* C7: a properties(key, exact) call that returns a handle yields, each
\* once, exactly the properties whose key is key when exact is true and
\* exactly those whose key starts with key when exact is false; on the
\* message with k=1 and kk=2 and the key "k" that is k=1 alone in exact mode
\* and both in prefix mode.
C7_ExactAndPrefix ==
    (propCall.called /\ propCall.ret # Panic) =>
        /\ Len(propCall.ret[2]) = Cardinality(PropsYielded)
        /\ propCall.exact => PropsYielded = {p \in props : p[1] = propCall.key}
        /\ ~propCall.exact => PropsYielded = {p \in props : IsPrefix(propCall.key, p[1])}
        /\ (props = {<<(<<107>>), (<<49>>)>>, <<(<<107, 107>>), (<<50>>)>>}
                /\ propCall.key = <<107>>) =>
              propCall.ret[2] = IF propCall.exact
                                THEN << <<(<<107>>), (<<49>>)>> >>
                                ELSE << <<(<<107>>), (<<49>>)>>, <<(<<107, 107>>), (<<50>>)>> >>

\* C7 witness: the message with k=1 and kk=2, asked for "k" exactly
C7_Witness ==
    /\ propCall.called
    /\ props = {<<(<<107>>), (<<49>>)>>, <<(<<107, 107>>), (<<50>>)>>}
    /\ propCall.key = <<107>>
    /\ propCall.exact
    /\ propCall.ret = <<"MessageProperties", << <<(<<107>>), (<<49>>)>> >> >>

---------------------------------------------------------------------------
(* Lifetimes of the handles derived from a Message.                        *)
(*                                                                         *)
(* A value can be dropped or moved only while nothing alive borrows it:    *)
(* that is the rule the lifetimes in the signatures make the compiler      *)
(* enforce, and the guards of the actions below state it.                  *)

DerivedKinds == {"tags", "filenames", "properties"}

\* ScopedPhantomcow::share: a borrowed marker is copied; an owned one
\* becomes shared, and the child holds a share
ScopedPhantomcow_share(mk) ==
    IF mk = "Borrowed"
    THEN [self |-> "Borrowed", child |-> "Borrowed"]
    ELSE [self |-> "Shared", child |-> "Shared"]

\* a bug: the handle keeps no reference to the message it was made from
Mut_derived_untied(kind, by, m) ==
    [state |-> "live", kind |-> kind, src |-> m,
     borrows |-> {},
     owns |-> IF by = "value" THEN {m} ELSE {},
     marker |-> "None"]

\* MessageExt::tags / filenames / properties: message.into() is a borrow of
\* the message for 'm or the message itself, and the handle returned keeps it
MessageExt_derived(kind, by, m) ==
    [state |-> "live", kind |-> kind, src |-> m,
     borrows |-> IF by = "ref" THEN {m} ELSE {},
     owns |-> IF by = "value" THEN {m} ELSE {},
     marker |-> "None"]

\* Message::replies: Messages<'o, O> over a share of the message's marker;
\* nothing of the message itself is kept
Message_replies(m, mk) ==
    [state |-> "live", kind |-> "replies", src |-> m,
     borrows |-> {}, owns |-> {},
     marker |-> ScopedPhantomcow_share(mk).child]

MsgAlive(m) == messages[m].state \in {"live", "inside"}

\* the messages and handles that keep the owner alive through their marker
Holders(ms, hs) ==
    {<<"m", m>> : m \in {x \in MsgIds : ms[x].state \in {"live", "inside"}
                                        /\ ms[x].marker \in {"Owned", "Shared"}}}
    \cup {<<"h", h>> : h \in {x \in HandleIds : hs[x].state = "live" /\ hs[x].marker = "Shared"}}

\* the owner after values were dropped: a held owner goes with its last holder
OwnerAfter(ms, hs) ==
    IF owner = "held" /\ Holders(ms, hs) = {} THEN "dropped" ELSE owner

BorrowedBy(m) == {h \in HandleIds : handles[h].state = "live" /\ m \in handles[h].borrows}

OwnerBorrowers ==
    {<<"m", m>> : m \in {x \in MsgIds : MsgAlive(x) /\ messages[x].marker = "Borrowed"}}
    \cup {<<"h", h>> : h \in {x \in HandleIds : handles[x].state = "live"
                                            /\ handles[x].marker = "Borrowed"}}

\* Message::from_ptr(ptr, owner): the owner is passed by reference or by value
NewMessage(m, by) ==
    /\ messages[m].state = "none"
    /\ \A j \in MsgIds : j < m => messages[j].state # "none"
    /\ owner = "scope"
    /\ by = "value" => OwnerBorrowers = {}
    /\ messages' = [messages EXCEPT ![m] =
                       [state |-> "live", marker |-> IF by = "ref" THEN "Borrowed" ELSE "Owned"]]
    /\ owner' = IF by = "ref" THEN owner ELSE "held"
    /\ UNCHANGED <<notLife, handles, lastUse>>

\* tags(), filenames() or properties() on a message, by reference or by value
Derive(h, kind, by, m) ==
    /\ handles[h].state = "none"
    /\ \A j \in HandleIds : j < h => handles[j].state # "none"
    /\ messages[m].state = "live"
    /\ by = "value" => BorrowedBy(m) = {}
    /\ handles' = [handles EXCEPT ![h] = MessageExt_derived(kind, by, m)]
    /\ messages' = IF by = "value"
                   THEN [messages EXCEPT ![m].state = "inside"]
                   ELSE messages
    /\ UNCHANGED <<notLife, owner, lastUse>>

\* message.replies()
Replies(h, m) ==
    /\ handles[h].state = "none"
    /\ \A j \in HandleIds : j < h => handles[j].state # "none"
    /\ messages[m].state = "live"
    /\ handles' = [handles EXCEPT ![h] = Message_replies(m, messages[m].marker)]
    /\ messages' = [messages EXCEPT ![m].marker = ScopedPhantomcow_share(@).self]
    /\ UNCHANGED <<notLife, owner, lastUse>>

\* a derived handle is advanced or read
Use(h) ==
    /\ handles[h].state = "live"
    /\ lastUse' = [h |-> h, kind |-> handles[h].kind,
                   producerAlive |-> MsgAlive(handles[h].src),
                   ownerAlive |-> owner # "dropped"]
    /\ UNCHANGED <<notLife, owner, messages, handles>>

\* a derived handle goes out of scope, and with it a message it holds
DropHandle(h) ==
    /\ handles[h].state = "live"
    /\ LET ms == [m \in MsgIds |->
                     IF m \in handles[h].owns
                     THEN [messages[m] EXCEPT !.state = "dropped"]
                     ELSE messages[m]]
           hs == [handles EXCEPT ![h].state = "dropped"]
       IN  /\ handles' = hs
           /\ messages' = ms
           /\ owner' = OwnerAfter(ms, hs)
    /\ UNCHANGED <<notLife, lastUse>>

\* a Message goes out of scope
DropMessage(m) ==
    /\ messages[m].state = "live"
    /\ BorrowedBy(m) = {}
    /\ LET ms == [messages EXCEPT ![m].state = "dropped"]
       IN  /\ messages' = ms
           /\ owner' = OwnerAfter(ms, handles)
    /\ UNCHANGED <<notLife, handles, lastUse>>

\* the owner goes out of the caller's scope
DropOwner ==
    /\ owner = "scope"
    /\ OwnerBorrowers = {}
    /\ owner' = "dropped"
    /\ UNCHANGED <<notLife, messages, handles, lastUse>>

NextLife ==
    \/ \E m \in MsgIds, by \in {"ref", "value"} : NewMessage(m, by)
    \/ \E h \in HandleIds, kind \in DerivedKinds, by \in {"ref", "value"}, m \in MsgIds :
          Derive(h, kind, by, m)
    \/ \E h \in HandleIds, m \in MsgIds : Replies(h, m)
    \/ \E h \in HandleIds : Use(h)
    \/ \E h \in HandleIds : DropHandle(h)
    \/ \E m \in MsgIds : DropMessage(m)
    \/ DropOwner

InitSpecLife ==
    /\ dbReadOnly = FALSE
    /\ InitFreeze
    /\ IdleTags
    /\ IdleHdr
    /\ IdleProps
    /\ InitLife
    /\ IdleThreads

SpecLife == InitSpecLife /\ [][NextLife]_vars

---------------------------------------------------------------------------
(* Message::replies called by the threads that share one Message.          *)
(*                                                                         *)
(* Message is declared Sync, so several threads may hold &Message and call *)
(* replies() at once.  The marker sits in a RefCell, whose flag is read    *)
(* and written by plain loads and stores: under a race either order of     *)
(* them may happen, which the separate read and write steps below allow.   *)

InitThreads ==
    /\ borrowFlag = 0
    /\ marker \in {"Borrowed", "Owned"}
    /\ pc = [t \in Threads |-> "idle"]
    /\ seen = [t \in Threads |-> 0]
    /\ done = [t \in Threads |-> 0]

\* replies() is entered: ffi::notmuch_message_get_replies(self.ptr)
CallReplies(t) ==
    /\ pc[t] = "idle"
    /\ done[t] < MaxCalls
    /\ pc' = [pc EXCEPT ![t] = "borrow_read"]
    /\ UNCHANGED <<notThreads, borrowFlag, marker, seen, done>>

\* self.marker.borrow_mut(): the flag is read
BorrowRead(t) ==
    /\ pc[t] = "borrow_read"
    /\ seen' = [seen EXCEPT ![t] = borrowFlag]
    /\ pc' = [pc EXCEPT ![t] = "borrow_check"]
    /\ UNCHANGED <<notThreads, borrowFlag, marker, done>>

\* borrow_mut(): a flag other than 0 (unused) panics ("already borrowed"),
\* 0 is replaced by -1 (borrowed mutably) and the RefMut is handed out
BorrowCheck(t) ==
    /\ pc[t] = "borrow_check"
    /\ IF seen[t] # 0
       THEN /\ pc' = [pc EXCEPT ![t] = "panicked"]
            /\ UNCHANGED borrowFlag
       ELSE /\ borrowFlag' = -1
            /\ pc' = [pc EXCEPT ![t] = "share"]
    /\ UNCHANGED <<notThreads, marker, seen, done>>

\* ScopedPhantomcow::share(&mut *refmut), then Messages::from_ptr
Share(t) ==
    /\ pc[t] = "share"
    /\ marker' = ScopedPhantomcow_share(marker).self
    /\ pc' = [pc EXCEPT ![t] = "release_read"]
    /\ UNCHANGED <<notThreads, borrowFlag, seen, done>>

\* the RefMut is dropped at the end of the expression: the flag is read
ReleaseRead(t) ==
    /\ pc[t] = "release_read"
    /\ seen' = [seen EXCEPT ![t] = borrowFlag]
    /\ pc' = [pc EXCEPT ![t] = "release_write"]
    /\ UNCHANGED <<notThreads, borrowFlag, marker, done>>

\* and written back, one higher; replies() returns
ReleaseWrite(t) ==
    /\ pc[t] = "release_write"
    /\ borrowFlag' = seen[t] + 1
    /\ pc' = [pc EXCEPT ![t] = "idle"]
    /\ done' = [done EXCEPT ![t] = @ + 1]
    /\ UNCHANGED <<notThreads, marker, seen>>

NextThreads ==
    \E t \in Threads :
        \/ CallReplies(t)
        \/ BorrowRead(t)
        \/ BorrowCheck(t)
        \/ Share(t)
        \/ ReleaseRead(t)
        \/ ReleaseWrite(t)

InitSpecThreads ==
    /\ dbReadOnly = FALSE
    /\ InitFreeze
    /\ IdleTags
    /\ IdleHdr
    /\ IdleProps
    /\ InitLife
    /\ InitThreads

SpecThreads == InitSpecThreads /\ [][NextThreads]_vars

\* the threads holding a RefMut of the marker
MutBorrowers == {t \in Threads : pc[t] \in {"share", "release_read", "release_write"}}

\* C9: in every interleaving of replies() calls on one Message, at most one
\* thread holds the mutable borrow of the marker at a time and no call
\* panics on the borrow.
C9_NoBorrowConflict ==
    /\ Cardinality(MutBorrowers) <= 1
    /\ \A t \in Threads : pc[t] # "panicked"

====
